---- MODULE Spec2Model ----
(***************************************************************************)
(* A model of backend/server.py: the barcode / QR code generator service.  *)
(* Requests are handled by async handlers over two document collections    *)
(* (db.barcodes, db.qrcodes).  A handler runs without interruption up to   *)
(* its await of a store call, so a generation request is two steps (build  *)
(* the document, then insert_one) and every other request is one step (its *)
(* single store call and the synchronous code after it).                   *)
(***************************************************************************)
EXTENDS Integers, Sequences, FiniteSets, Bags, TLC

\* ---------------------------------------------------------------- bounds
\* Number of identifiers uuid.uuid4() hands out in a run.
MaxIds == 2
\* Number of half-second steps the wall clock advances in a run.
MaxClock == 2
\* Number of delete requests awaiting their delete_one at one time.
MaxDeleting == 2

\* ------------------------------------------------------------ constants
\* datetime.isoformat() prints microseconds, six digits, only when non-zero.
MicrosPerSecond == 1000000
\* The longest text tests/test_text_length.py expects generate_barcode to take.
MaxTextLength == 255

Kinds == {"barcode", "qrcode"}

\* ------------------------------------------------------------------ text
\* A str is modelled run-length encoded: a sequence of runs of one character.
Run(ch, n) == [ch |-> ch, n |-> n]

\* str.isspace() for one character.
IsSpace(ch) == ch \in {" ", "\t", "\n"}

RECURSIVE LStrip(_)
\* str.lstrip(): drop the leading whitespace runs.
LStrip(s) ==
    IF s = <<>> THEN <<>>
    ELSE IF IsSpace(Head(s).ch) THEN LStrip(Tail(s)) ELSE s

RECURSIVE RStrip(_)
\* str.rstrip(): drop the trailing whitespace runs.
RStrip(s) ==
    IF s = <<>> THEN <<>>
    ELSE IF IsSpace(s[Len(s)].ch) THEN RStrip(SubSeq(s, 1, Len(s) - 1)) ELSE s

\* str.strip()
Strip(s) == RStrip(LStrip(s))

RECURSIVE StrLen(_)
\* len(str): the characters of all runs.
StrLen(s) == IF s = <<>> THEN 0 ELSE Head(s).n + StrLen(Tail(s))

\* bool(str): the empty string is falsy.
Truthy(s) == StrLen(s) > 0

\* The request texts the model submits.
Texts ==
    { <<>>,
      <<Run(" ", 2)>>,
      <<Run(" ", 1), Run("a", 3), Run("\n", 1)>>,
      <<Run("a", MaxTextLength)>>,
      <<Run("a", MaxTextLength + 1)>> }

\* ------------------------------------------------------------ timestamps
\* The clock counts half seconds; created_at is the isoformat() string of a
\* reading, kept as its code points from the seconds field on (the date,
\* hour and minute before it are the same fixed-width prefix in every
\* reading of a run): "SS+00:00" or "SS.ffffff+00:00".
Digit(d) == 48 + d

RECURSIVE Digits(_, _)
\* n printed in w decimal digits, zero padded.
Digits(n, w) == IF w = 0 THEN <<>> ELSE Append(Digits(n \div 10, w - 1), Digit(n % 10))

Seconds(t) == (t * (MicrosPerSecond \div 2)) \div MicrosPerSecond
Micros(t) == (t * (MicrosPerSecond \div 2)) % MicrosPerSecond

\* "+00:00"
UtcOffset == <<43, 48, 48, 58, 48, 48>>

\* datetime.now(timezone.utc).isoformat()
IsoFormat(t) ==
    Digits(Seconds(t), 2)
        \o (IF Micros(t) = 0 THEN <<>> ELSE <<46>> \o Digits(Micros(t), 6))
        \o UtcOffset

RECURSIVE StrLess(_, _)
\* a < b for strings, by code point (the store's order on string fields).
StrLess(a, b) ==
    IF b = <<>> THEN FALSE
    ELSE IF a = <<>> THEN TRUE
    ELSE IF Head(a) # Head(b) THEN Head(a) < Head(b)
    ELSE StrLess(Tail(a), Tail(b))

\* ----------------------------------------------------------------- state
VARIABLES
    db,         \* db.barcodes, db.qrcodes: each collection in insertion order
    inflight,   \* generation requests suspended at "await insert_one"
    now,        \* the last reading of the wall clock, in half seconds
    nextId,     \* how many identifiers uuid4 has handed out
    resp,       \* the response being sent: that of the request that completed
                \* in the last step, NoResp once it is sent
    returned,   \* history: the records successful generation requests returned,
                \* until a delete of their id succeeds
    deleted,    \* history: <<kind, id>> of every delete that returned 200
    failed,     \* history: ids of generation requests whose insert failed
    deleting    \* the bag of <<kind, id>> of the delete requests suspended at
                \* "await delete_one" (SpecDelete; in Spec a delete request
                \* is one step, from its arrival to its answer)

vars == <<db, inflight, now, nextId, resp, returned, deleted, failed, deleting>>

\* The QR endpoints left on the collection they were copied from.
CollBarcodesOnly(kind) == "barcodes"

\* The collection a kind of code is stored in.
Coll(kind) == IF kind = "barcode" THEN "barcodes" ELSE "qrcodes"

\* The id of a response to a request that names none.
NoId == 0 - 1

\* ------------------------------------------------------------ exceptions
\* What a block of code ends with: a value, an HTTPException, or any other
\* exception (exc = "Exception").
Returns(value) == [exc |-> "none", status |-> 200, detail |-> <<>>, value |-> value]
HTTPException(status, detail) ==
    [exc |-> "HTTPException", status |-> status, detail |-> detail, value |-> <<>>]
Raises(msg) == [exc |-> "Exception", status |-> 0, detail |-> <<msg>>, value |-> <<>>]

\* A handler without "except HTTPException: raise": every exception, the
\* handler's own HTTPExceptions included, becomes a 500.
ExceptClausesCatchAll(outcome, prefix) ==
    IF outcome.exc # "none"
    THEN HTTPException(500, <<prefix>> \o outcome.detail)
    ELSE outcome

\* The except clauses of generate_*, get_* and delete_*:
\*   except HTTPException: raise
\*   except Exception as e: raise HTTPException(500, f"{prefix}{e}")
ExceptClauses(outcome, prefix) ==
    IF outcome.exc = "Exception"
    THEN HTTPException(500, <<prefix>> \o outcome.detail)
    ELSE outcome

\* The except clause of get_all_*: except Exception only.
ListExceptClause(outcome, prefix) ==
    IF outcome.exc = "none"
    THEN outcome
    ELSE HTTPException(500, <<prefix>> \o outcome.detail)

\* -------------------------------------------------------------- encoders
\* The external encoder (Code128(...).write / qrcode.QRCode(...).make_image):
\* a PNG of the text, or an exception; which one is the library's business.
Encoder(kind, text, encOk) ==
    IF encOk
    THEN Returns(<<[png |-> kind, of |-> text]>>)
    ELSE Raises("encoder error")

\* generate_barcode_image / generate_qrcode_image: any exception of the
\* encoder becomes HTTPException(400).
EncoderPrefix(kind) ==
    IF kind = "barcode" THEN "Error generating barcode: " ELSE "Error generating QR code: "

\* A helper without its try/except: the encoder's exception goes up as it is.
generate_image_unwrapped(kind, text, encOk) == Encoder(kind, text, encOk)

generate_image(kind, text, encOk) ==
    LET out == Encoder(kind, text, encOk) IN
    IF out.exc = "none"
    THEN out
    ELSE HTTPException(400, <<EncoderPrefix(kind)>> \o out.detail)

\* An identifier source that repeats itself: the identifier drawn last, again.
uuid4_repeating == IF nextId > 0 THEN nextId - 1 ELSE nextId

\* str(uuid.uuid4()): an identifier no earlier call returned.
uuid4 == nextId

\* prepare_for_mongo taking its other branch: created_at is set anew from the
\* clock at the time of the insert.
prepare_for_mongo_restamped(data) == [data EXCEPT !.created_at = IsoFormat(now)]

\* prepare_for_mongo: a document whose created_at is already a string (every
\* document the endpoints build) is returned as it is.
prepare_for_mongo(data) == data

\* parse_from_mongo returns its argument on both branches.
parse_from_mongo(item) == item

\* ----------------------------------------------------------------- store
\* collection.insert_one(doc): appends, or raises and leaves the collection.
insert_one(coll, doc, storeOk) ==
    IF storeOk
    THEN [exc |-> "none", coll |-> Append(coll, doc)]
    ELSE [exc |-> "Exception", coll |-> coll]

\* The positions of the documents matching {"id": id}.
Matches(coll, id) == {i \in DOMAIN coll : coll[i].id = id}

Min(S) == CHOOSE x \in S : \A y \in S : x <= y

\* find_one() without its filter: the first document of the collection.
find_one_unfiltered(coll, id, storeOk) ==
    IF ~storeOk THEN Raises("store error")
    ELSE IF coll = <<>> THEN Returns(<<>>)
    ELSE Returns(<<coll[1]>>)

\* collection.find_one({"id": id}): the first match, or None (<<>>).
find_one(coll, id, storeOk) ==
    IF ~storeOk THEN Raises("store error")
    ELSE IF Matches(coll, id) = {} THEN Returns(<<>>)
    ELSE Returns(<<coll[Min(Matches(coll, id))]>>)

\* coll without its i-th document.
RemoveAt(coll, i) == SubSeq(coll, 1, i - 1) \o SubSeq(coll, i + 1, Len(coll))

\* delete_one({}) with the filter lost: the first document goes, whichever
\* id was asked for.
delete_one_first(coll, id, storeOk) ==
    IF ~storeOk THEN [exc |-> "Exception", coll |-> coll, deleted_count |-> 0]
    ELSE IF coll = <<>> THEN [exc |-> "none", coll |-> coll, deleted_count |-> 0]
    ELSE [exc |-> "none", coll |-> Tail(coll), deleted_count |-> 1]

\* A delete_one that reports a deletion whether or not it matched.
delete_one_uncounted(coll, id, storeOk) ==
    IF ~storeOk THEN [exc |-> "Exception", coll |-> coll, deleted_count |-> 0]
    ELSE IF Matches(coll, id) = {} THEN [exc |-> "none", coll |-> coll, deleted_count |-> 1]
    ELSE [exc |-> "none", coll |-> RemoveAt(coll, Min(Matches(coll, id))), deleted_count |-> 1]

\* A delete that counts the match and leaves it in the collection.
delete_one_kept(coll, id, storeOk) ==
    IF ~storeOk THEN [exc |-> "Exception", coll |-> coll, deleted_count |-> 0]
    ELSE IF Matches(coll, id) = {} THEN [exc |-> "none", coll |-> coll, deleted_count |-> 0]
    ELSE [exc |-> "none", coll |-> coll, deleted_count |-> 1]

\* collection.delete_one({"id": id}): removes the first match, if any.
delete_one(coll, id, storeOk) ==
    IF ~storeOk THEN [exc |-> "Exception", coll |-> coll, deleted_count |-> 0]
    ELSE IF Matches(coll, id) = {} THEN [exc |-> "none", coll |-> coll, deleted_count |-> 0]
    ELSE [exc |-> "none", coll |-> RemoveAt(coll, Min(Matches(coll, id))), deleted_count |-> 1]

\* The orders in which the documents of coll can be listed.
Orders(coll) ==
    {p \in [DOMAIN coll -> DOMAIN coll] : \A i, j \in DOMAIN coll : i # j => p[i] # p[j]}

\* .sort("created_at", 1): ascending.
SortedAscending(list) ==
    \A i, j \in DOMAIN list : i < j => ~StrLess(list[j].created_at, list[i].created_at)

\* .sort("created_at", -1): no document is listed before one with a greater
\* created_at; the order among equal keys is the store's choice.
SortedDescending(list) ==
    \A i, j \in DOMAIN list : i < j => ~StrLess(list[i].created_at, list[j].created_at)

\* A listing cut to one page: to_list(length=1).
find_sort_limited(coll, p, storeOk) ==
    IF storeOk
    THEN Returns(IF coll = <<>> THEN <<>> ELSE <<coll[p[1]]>>)
    ELSE Raises("store error")

\* collection.find().sort("created_at", -1).to_list(length=None), the store
\* listing the documents in order p.
find_sort(coll, p, storeOk) ==
    IF storeOk THEN Returns([i \in DOMAIN coll |-> coll[p[i]]]) ELSE Raises("store error")

\* ------------------------------------------------------------- responses
\* No request completed in the last step.
NoResp ==
    [op |-> "none", kind |-> "none", id |-> NoId, text |-> <<>>, status |-> 0,
     detail |-> <<>>, body |-> <<>>, encoderCalls |-> 0, encoderRaised |-> FALSE,
     storeCalls |-> 0, storeRaised |-> FALSE]

\* What the client gets (status, detail or body) and what the handler did to
\* produce it (its calls of the encoder and of the store).
Response(op, kind, id, text, outcome, enc, store) ==
    [op |-> op, kind |-> kind, id |-> id, text |-> text,
     status |-> outcome.status, detail |-> outcome.detail, body |-> outcome.value,
     encoderCalls |-> enc.calls, encoderRaised |-> enc.raised,
     storeCalls |-> store.calls, storeRaised |-> store.raised]

NotCalled == [calls |-> 0, raised |-> FALSE]
CalledOnce(out) == [calls |-> 1, raised |-> out.exc # "none"]

GeneratePrefix(kind) ==
    IF kind = "barcode" THEN "Error generating barcode: " ELSE "Error generating QR code: "
ListPrefix(kind) ==
    IF kind = "barcode" THEN "Error fetching barcodes: " ELSE "Error fetching QR codes: "
GetPrefix(kind) ==
    IF kind = "barcode" THEN "Error fetching barcode: " ELSE "Error fetching QR code: "
DeletePrefix(kind) ==
    IF kind = "barcode" THEN "Error deleting barcode: " ELSE "Error deleting QR code: "
NotFound(kind) == IF kind = "barcode" THEN "Barcode not found" ELSE "QR code not found"

\* --------------------------------------------------------------- actions
Init ==
    /\ db = [barcodes |-> <<>>, qrcodes |-> <<>>]
    /\ inflight = {}
    /\ now = 0
    /\ nextId = 0
    /\ resp = NoResp
    /\ returned = {}
    /\ deleted = {}
    /\ failed = {}
    /\ deleting = EmptyBag

\* A text check that tests the raw text: whitespace passes.
ValidateTextUnstripped(text) ==
    IF ~Truthy(text)
    THEN HTTPException(400, <<"Text cannot be empty">>)
    ELSE Returns(<<>>)

\* The text check of generate_*: "if not request.text.strip(): raise 400".
ValidateText(text) ==
    IF ~Truthy(Strip(text))
    THEN HTTPException(400, <<"Text cannot be empty">>)
    ELSE Returns(<<>>)

\* A document built from the text as submitted ("text": request.text).
BuildDocRaw(id, text, image, t) ==
    [id |-> id, text |-> text, image |-> image, created_at |-> IsoFormat(t)]

\* The document generate_* builds from its id, the stripped text and the image.
BuildDoc(id, text, image, t) ==
    [id |-> id, text |-> Strip(text), image |-> image, created_at |-> IsoFormat(t)]

\* datetime.now(timezone.utc): a reading not before the last one.
Readings == {t \in now .. (now + 1) : t <= MaxClock}

\* generate_barcode / generate_qrcode up to "await insert_one": validate,
\* draw the id, encode (the encoder succeeds or raises), read the clock and
\* build the document.  A request that fails on the way is answered in this
\* step.
GenerateStart(kind, text) ==
    LET valid == ValidateText(text) IN
    /\ resp = NoResp
    /\ IF valid.exc # "none"
       THEN /\ resp' = Response("generate", kind, NoId, text,
                                ExceptClauses(valid, GeneratePrefix(kind)),
                                NotCalled, NotCalled)
            /\ UNCHANGED <<db, inflight, now, nextId, returned, deleted, failed, deleting>>
       ELSE /\ nextId < MaxIds
            /\ nextId' = nextId + 1
            /\ \E encOk \in BOOLEAN :
                 LET image == generate_image(kind, Strip(text), encOk) IN
                 IF image.exc # "none"
                 THEN /\ resp' = Response("generate", kind, uuid4, text,
                                          ExceptClauses(image, GeneratePrefix(kind)),
                                          CalledOnce(image), NotCalled)
                      /\ UNCHANGED <<inflight, now>>
                 ELSE /\ \E t \in Readings :
                           /\ now' = t
                           /\ inflight' = inflight \cup
                                  {[kind |-> kind, text |-> text,
                                    doc |-> BuildDoc(uuid4, text, image.value[1], t)]}
                      /\ resp' = NoResp
            /\ UNCHANGED <<db, returned, deleted, failed, deleting>>

\* An insert that is tried again when it raises.
await_insert_one_retried(coll, doc, storeOk) ==
    LET res == insert_one(coll, prepare_for_mongo(doc), storeOk)
        again == insert_one(res.coll, prepare_for_mongo(doc), TRUE)
    IN IF res.exc = "none"
       THEN [exc |-> res.exc, coll |-> res.coll, calls |-> 1, raised |-> FALSE]
       ELSE [exc |-> again.exc, coll |-> again.coll, calls |-> 2, raised |-> TRUE]

\* "await db.<coll>.insert_one(prepare_for_mongo(doc.copy()))": one call.
await_insert_one(coll, doc, storeOk) ==
    LET res == insert_one(coll, prepare_for_mongo(doc), storeOk) IN
    [exc |-> res.exc, coll |-> res.coll, calls |-> 1, raised |-> res.exc # "none"]

\* generate_barcode / generate_qrcode from "await insert_one" on: the insert
\* and the response built from the document.
GenerateFinish(kind, r, storeOk) ==
    /\ resp = NoResp
    /\ r \in inflight
    /\ r.kind = kind
    /\ LET res == await_insert_one(db[Coll(kind)], r.doc, storeOk)
           outcome == ExceptClauses(IF res.exc = "none" THEN Returns(<<r.doc>>)
                                    ELSE Raises("store error"),
                                    GeneratePrefix(kind))
       IN /\ db' = [db EXCEPT ![Coll(kind)] = res.coll]
          /\ inflight' = inflight \ {r}
          /\ resp' = Response("generate", kind, r.doc.id, r.text, outcome,
                              [calls |-> 1, raised |-> FALSE],
                              [calls |-> res.calls, raised |-> res.raised])
          /\ returned' = IF outcome.status = 200
                         THEN returned \cup {[kind |-> kind, doc |-> r.doc]}
                         ELSE returned
          /\ failed' = IF res.raised THEN failed \cup {r.doc.id} ELSE failed
    /\ UNCHANGED <<now, nextId, deleted, deleting>>

\* get_all_barcodes / get_all_qrcodes
GetAll(kind, p, storeOk) ==
    LET found == find_sort(db[Coll(kind)], p, storeOk)
        outcome == ListExceptClause(
                       IF found.exc # "none" THEN found
                       ELSE Returns([i \in DOMAIN found.value |->
                                        parse_from_mongo(found.value[i])]),
                       ListPrefix(kind))
    IN /\ resp = NoResp
       /\ storeOk => SortedDescending(found.value)
       /\ resp' = Response("list", kind, NoId, <<>>, outcome, NotCalled, CalledOnce(found))
       /\ UNCHANGED <<db, inflight, now, nextId, returned, deleted, failed, deleting>>

\* get_barcode / get_qrcode
GetOne(kind, id, storeOk) ==
    LET found == find_one(db[Coll(kind)], id, storeOk)
        outcome == ExceptClauses(
                       IF found.exc # "none" THEN found
                       ELSE IF found.value = <<>> THEN HTTPException(404, <<NotFound(kind)>>)
                       ELSE Returns(<<parse_from_mongo(found.value[1])>>),
                       GetPrefix(kind))
    IN /\ resp = NoResp
       /\ resp' = Response("get", kind, id, <<>>, outcome, NotCalled, CalledOnce(found))
       /\ UNCHANGED <<db, inflight, now, nextId, returned, deleted, failed, deleting>>

\* "await db.<coll>.delete_one({"id": id})" of delete_barcode / delete_qrcode.
await_delete_one(coll, id, storeOk) == delete_one(coll, id, storeOk)

\* delete_barcode / delete_qrcode: the delete_one call and the answer built
\* from its deleted_count.
DeleteOne(kind, id, storeOk) ==
    LET result == await_delete_one(db[Coll(kind)], id, storeOk)
        outcome == ExceptClauses(
                       IF result.exc # "none" THEN Raises("store error")
                       ELSE IF result.deleted_count = 0
                       THEN HTTPException(404, <<NotFound(kind)>>)
                       ELSE Returns(<<>>),
                       DeletePrefix(kind))
    IN /\ resp = NoResp
       /\ db' = [db EXCEPT ![Coll(kind)] = result.coll]
       /\ resp' = Response("delete", kind, id, <<>>, outcome, NotCalled, CalledOnce(result))
       /\ deleted' = IF outcome.status = 200 THEN deleted \cup {<<kind, id>>} ELSE deleted
       /\ returned' = IF outcome.status = 200
                      THEN {g \in returned : ~(g.kind = kind /\ g.doc.id = id)}
                      ELSE returned
       /\ UNCHANGED <<inflight, now, nextId, failed>>

\* The identifiers requests ask for: every one uuid4 may hand out.
Ids == 0 .. (MaxIds - 1)

generate_barcode == \E text \in Texts : GenerateStart("barcode", text)
generate_barcode_insert == \E r \in inflight, ok \in BOOLEAN : GenerateFinish("barcode", r, ok)
get_all_barcodes ==
    \E p \in Orders(db.barcodes), ok \in BOOLEAN : GetAll("barcode", p, ok)
get_barcode == \E id \in Ids, ok \in BOOLEAN : GetOne("barcode", id, ok)
delete_barcode ==
    \E id \in Ids, ok \in BOOLEAN : DeleteOne("barcode", id, ok) /\ UNCHANGED deleting

generate_qrcode == \E text \in Texts : GenerateStart("qrcode", text)
generate_qrcode_insert == \E r \in inflight, ok \in BOOLEAN : GenerateFinish("qrcode", r, ok)
get_all_qrcodes ==
    \E p \in Orders(db.qrcodes), ok \in BOOLEAN : GetAll("qrcode", p, ok)
get_qrcode == \E id \in Ids, ok \in BOOLEAN : GetOne("qrcode", id, ok)
delete_qrcode ==
    \E id \in Ids, ok \in BOOLEAN : DeleteOne("qrcode", id, ok) /\ UNCHANGED deleting

\* The server sends the response; the handlers' steps go on.
send_response ==
    /\ resp # NoResp
    /\ resp' = NoResp
    /\ UNCHANGED <<db, inflight, now, nextId, returned, deleted, failed, deleting>>

Next ==
    \/ generate_barcode
    \/ generate_barcode_insert
    \/ get_all_barcodes
    \/ get_barcode
    \/ delete_barcode
    \/ generate_qrcode
    \/ generate_qrcode_insert
    \/ get_all_qrcodes
    \/ get_qrcode
    \/ delete_qrcode
    \/ send_response

Spec == Init /\ [][Next]_vars

\* ------------------------------------------------- delete requests in flight
\* A delete request arrives and is suspended at its await of delete_one; the
\* handler reads and writes nothing before that.
DeleteArrives(kind, id) ==
    /\ resp = NoResp
    /\ BagCardinality(deleting) < MaxDeleting
    /\ deleting' = deleting (+) SetToBag({<<kind, id>>})
    /\ UNCHANGED <<db, inflight, now, nextId, resp, returned, deleted, failed>>

\* The store serves the delete_one of a suspended delete request, and the
\* handler answers.
DeleteServed(kind, id, storeOk) ==
    /\ BagIn(<<kind, id>>, deleting)
    /\ deleting' = deleting (-) SetToBag({<<kind, id>>})
    /\ DeleteOne(kind, id, storeOk)

delete_barcode_arrives == \E id \in Ids : DeleteArrives("barcode", id)
delete_barcode_served == \E id \in Ids, ok \in BOOLEAN : DeleteServed("barcode", id, ok)
delete_qrcode_arrives == \E id \in Ids : DeleteArrives("qrcode", id)
delete_qrcode_served == \E id \in Ids, ok \in BOOLEAN : DeleteServed("qrcode", id, ok)

\* The request text of the records that the delete requests address.
PlainTexts == {<<Run("a", MaxTextLength)>>}

generate_plain_barcode == \E text \in PlainTexts : GenerateStart("barcode", text)
generate_plain_qrcode == \E text \in PlainTexts : GenerateStart("qrcode", text)

\* The service with its delete requests in flight: generation and deletion,
\* every await a step of its own.
NextDelete ==
    \/ generate_plain_barcode
    \/ generate_barcode_insert
    \/ generate_plain_qrcode
    \/ generate_qrcode_insert
    \/ delete_barcode_arrives
    \/ delete_barcode_served
    \/ delete_qrcode_arrives
    \/ delete_qrcode_served
    \/ send_response

SpecDelete == Init /\ [][NextDelete]_vars

\* ================================================================ claims
\* The documents of both collections, barcodes first.
AllDocs == db.barcodes \o db.qrcodes

\* Whether a document with this id is stored for this kind.
Stored(kind, id) == Matches(db[Coll(kind)], id) # {}

\* The step completes a request: its response is handed to the server.
Completes == resp = NoResp /\ resp' # NoResp

\* The clock reading a created_at string was printed from.
TimeOf(s) == CHOOSE t \in 0 .. MaxClock : IsoFormat(t) = s

\* C1: a generation request (barcode or QR) whose text is empty or only
\* whitespace ends with status 400, without a call of the encoder, and leaves
\* both collections (and the requests awaiting their insert) unchanged.
C1_EmptyTextRejected ==
    [][(Completes /\ resp'.op = "generate" /\ ~Truthy(Strip(resp'.text)))
          => /\ resp'.status = 400
             /\ resp'.encoderCalls = 0
             /\ resp'.storeCalls = 0
             /\ db' = db
             /\ inflight' = inflight]_vars

\* C1 witness: a whitespace-only QR request was answered with 400.
C1_Witness ==
    /\ resp.op = "generate"
    /\ resp.kind = "qrcode"
    /\ StrLen(resp.text) > 0
    /\ ~Truthy(Strip(resp.text))
    /\ resp.status = 400

\* C2: a retrieval by the id of a record that a generation request returned,
\* with no delete of that id having succeeded, answers 200 with the record
\* generation returned (same id, text, image and created_at), the store's
\* find_one answering.
C2_RetrievableAfterCreation ==
    \A g \in returned :
        (resp.op = "get" /\ resp.kind = g.kind /\ resp.id = g.doc.id /\ ~resp.storeRaised)
            => (resp.status = 200 /\ resp.body = <<g.doc>>)

\* C2 witness: a record created while another request was in flight and the
\* clock moved on is retrieved.
C2_Witness ==
    /\ resp.op = "get"
    /\ resp.status = 200
    /\ \E g \in returned :
          /\ g.kind = resp.kind
          /\ g.doc.id = resp.id
          /\ g.doc.created_at # IsoFormat(now)

\* C3: once a delete of an id has returned 200, no later retrieval of that id
\* on the same type is answered 200: it is answered 404 whenever the store's
\* find_one answers, whatever was generated, listed, read or deleted since.
C3_DeletedStaysGone ==
    (resp.op = "get" /\ <<resp.kind, resp.id>> \in deleted)
        => /\ resp.status # 200
           /\ ~resp.storeRaised => resp.status = 404

\* C3 witness: a retrieval of a deleted id, after a later record was stored
\* for the same type, is answered 404.
C3_Witness ==
    /\ resp.op = "get"
    /\ <<resp.kind, resp.id>> \in deleted
    /\ resp.status = 404
    /\ db[Coll(resp.kind)] # <<>>

\* C4: every list the listing endpoints return is ordered by creation time
\* descending: of two adjacent records the first was not created before the
\* second, whatever the order of the inserts.
C4_ListDescending ==
    (resp.op = "list" /\ resp.status = 200)
        => \A i \in 1 .. (Len(resp.body) - 1) :
               TimeOf(resp.body[i].created_at) >= TimeOf(resp.body[i + 1].created_at)

\* C4 witness: a listing of two records of which the one created first was
\* inserted last.
C4_Witness ==
    /\ resp.op = "list"
    /\ resp.status = 200
    /\ Len(resp.body) = 2
    /\ LET coll == db[Coll(resp.kind)] IN
          /\ Len(coll) = 2
          /\ TimeOf(coll[2].created_at) < TimeOf(coll[1].created_at)

\* C5: generate_barcode rejects a text of more than 255 characters with status
\* 400 and stores nothing for it, and accepts a text of exactly 255 characters,
\* answering with the submitted text (stated for the requests in which neither
\* the encoder nor the store raises, so that only the length decides).
C5_BarcodeLengthLimit ==
    (resp.op = "generate" /\ resp.kind = "barcode"
        /\ ~resp.encoderRaised /\ ~resp.storeRaised)
        => /\ StrLen(resp.text) > MaxTextLength
                => (resp.status = 400 /\ ~Stored("barcode", resp.id))
           /\ StrLen(resp.text) = MaxTextLength
                => (resp.status = 200 /\ resp.body[1].text = resp.text)

\* C6: a retrieval or a delete by an id the addressed collection does not hold
\* leaves both collections unchanged and is answered 404 (the store's call
\* answering; 500 when it raises).
C6_AbsentIdNotFound ==
    [][(Completes /\ resp'.op \in {"get", "delete"} /\ ~Stored(resp'.kind, resp'.id))
          => /\ db' = db
             /\ IF resp'.storeRaised THEN resp'.status = 500 ELSE resp'.status = 404]_vars

\* C6 witness: a delete by an absent id answered 404 while the collection
\* holds another record.
C6_Witness ==
    /\ resp.op = "delete"
    /\ resp.status = 404
    /\ db[Coll(resp.kind)] # <<>>

\* C7: a generation request whose encoder call raises ends with status 400,
\* not 500, and nothing is stored or left awaiting an insert for it.
C7_EncoderFailureIs400 ==
    [][(Completes /\ resp'.op = "generate" /\ resp'.encoderRaised)
          => /\ resp'.status = 400
             /\ Truthy(Strip(resp'.text))
             /\ resp'.storeCalls = 0
             /\ db' = db
             /\ inflight' = inflight]_vars

\* C7 witness: a barcode request with non-blank text failed in the encoder
\* and was answered 400.
C7_Witness ==
    /\ resp.op = "generate"
    /\ resp.kind = "barcode"
    /\ resp.encoderRaised
    /\ resp.status = 400

\* C8: a request whose store call raises ends with status 500 after exactly
\* one store call, no request calls the store twice, and a record whose
\* insert raised is in neither collection, then or later.
C8_StoreFailureIs500 ==
    /\ resp.storeRaised => (resp.status = 500 /\ resp.storeCalls = 1)
    /\ resp.storeCalls <= 1
    /\ \A id \in failed : ~Stored("barcode", id) /\ ~Stored("qrcode", id)

\* C8 witness: an insert raised, the request was answered 500, and a record
\* generated later is stored.
C8_Witness ==
    /\ failed # {}
    /\ AllDocs # <<>>
    /\ resp.storeRaised
    /\ resp.status = 500

\* Why a request failed, read off its response.
InvalidText == resp.op = "generate" /\ ~Truthy(Strip(resp.text))
AbsentId == resp.op \in {"get", "delete"} /\ ~resp.storeRaised /\ ~Stored(resp.kind, resp.id)

\* C9 as stated: a failed request is answered 400 for an empty text, 404 for
\* an absent id, and 500 for a failure of the encoder or of the store.
C9_EncoderFailureIs500 ==
    (resp.op # "none" /\ resp.status # 200)
        => /\ resp.status \in {400, 404, 500}
           /\ InvalidText => resp.status = 400
           /\ AbsentId => resp.status = 404
           /\ (resp.encoderRaised \/ resp.storeRaised) => resp.status = 500

\* C9 as amended: a failed request is answered 400 exactly when its text is
\* empty or its encoder call raised, 404 exactly when the id is absent, and
\* 500 exactly when its store call raised.
C9_ErrorKinds ==
    (resp.op # "none" /\ resp.status # 200)
        => /\ resp.status \in {400, 404, 500}
           /\ resp.status = 400 <=> (InvalidText \/ resp.encoderRaised)
           /\ resp.status = 404 <=> AbsentId
           /\ resp.status = 500 <=> resp.storeRaised

\* C9 witness: a QR request whose encoder call raised was answered 400.
C9_Witness ==
    /\ resp.op = "generate"
    /\ resp.kind = "qrcode"
    /\ resp.encoderRaised
    /\ resp.status = 400

\* C10: no two stored records, of one collection or of both, have the same
\* id (uuid4 handing out fresh identifiers; insert_one checks nothing).
C10_UniqueIds ==
    \A i, j \in DOMAIN AllDocs : i # j => AllDocs[i].id # AllDocs[j].id

\* C10 witness: a barcode record and a QR record are stored.
C10_Witness ==
    /\ db.barcodes # <<>>
    /\ db.qrcodes # <<>>

\* The names of the two collections.
Collections == {"barcodes", "qrcodes"}

\* The step answers a delete with 200.
DeleteSucceeds == Completes /\ resp'.op = "delete" /\ resp'.status = 200

\* C11: no step changes a stored record: a record present before and after a
\* step has the same id, text, image and created_at; a step other than a
\* successful delete removes no record; a successful delete of id i removes
\* the record with id i from its collection and nothing else from either.
C11_NoUpdate ==
    [][/\ \A c \in Collections : \A i \in DOMAIN db[c] : \A j \in DOMAIN db'[c] :
             db[c][i].id = db'[c][j].id => db[c][i] = db'[c][j]
       /\ ~DeleteSucceeds
             => \A c \in Collections : \A i \in DOMAIN db[c] :
                    \E j \in DOMAIN db'[c] : db'[c][j] = db[c][i]
       /\ DeleteSucceeds
             => /\ \E k \in DOMAIN db[Coll(resp'.kind)] :
                      /\ db[Coll(resp'.kind)][k].id = resp'.id
                      /\ db'[Coll(resp'.kind)] = RemoveAt(db[Coll(resp'.kind)], k)
                /\ \A c \in Collections \ {Coll(resp'.kind)} : db'[c] = db[c]]_vars

\* C11 witness: a delete succeeded and another record of the same type is
\* still stored.
C11_Witness ==
    /\ resp.op = "delete"
    /\ resp.status = 200
    /\ db[Coll(resp.kind)] # <<>>

\* A string that is not empty and neither starts nor ends with whitespace.
Trimmed(s) == StrLen(s) > 0 /\ ~IsSpace(s[1].ch) /\ ~IsSpace(s[Len(s)].ch)

\* C12: the text of every stored record, barcode or QR, is non-empty with no
\* leading or trailing whitespace, and a successful generation request stores
\* and returns its request text trimmed.
C12_StoredTextTrimmed ==
    /\ \A i \in DOMAIN AllDocs : Trimmed(AllDocs[i].text)
    /\ (resp.op = "generate" /\ resp.status = 200)
          => /\ resp.body[1].text = Strip(resp.text)
             /\ \E i \in DOMAIN db[Coll(resp.kind)] :
                   /\ db[Coll(resp.kind)][i].id = resp.id
                   /\ db[Coll(resp.kind)][i].text = Strip(resp.text)

\* C12 witness: a request text with surrounding whitespace was stored and
\* returned without it.
C12_Witness ==
    /\ resp.op = "generate"
    /\ resp.status = 200
    /\ IsSpace(resp.text[1].ch)
    /\ IsSpace(resp.text[Len(resp.text)].ch)
    /\ Trimmed(resp.body[1].text)

\* The step answers a generation request with 200.
GenerateSucceeds == Completes /\ resp'.op = "generate" /\ resp'.status = 200

\* C13: a generation request that succeeds appends one record to the
\* collection of its type and leaves the other collection as it was; the
\* record returned equals the record stored, field for field.  The steps come
\* in the order id, encoding, construction, insert, response: an encoder
\* failure has already drawn its id, the document is built (with that id, after
\* one encoder call) and awaits its insert with nothing stored or answered
\* yet, and the 200 comes with the insert of that same document.
C13_GenerateInsertsOne ==
    [][/\ GenerateSucceeds
             => /\ Len(resp'.body) = 1
                /\ resp'.body[1].id = resp'.id
                /\ resp'.encoderCalls = 1
                /\ resp'.storeCalls = 1
                /\ \E r \in inflight :
                      r.kind = resp'.kind /\ r.doc = resp'.body[1] /\ r \notin inflight'
                /\ resp'.kind = "barcode"
                      => /\ db'.barcodes = Append(db.barcodes, resp'.body[1])
                         /\ db'.qrcodes = db.qrcodes
                /\ resp'.kind = "qrcode"
                      => /\ db'.qrcodes = Append(db.qrcodes, resp'.body[1])
                         /\ db'.barcodes = db.barcodes
       /\ (Completes /\ resp'.op = "generate" /\ resp'.encoderRaised)
             => (nextId' = nextId + 1 /\ resp'.id = nextId)
       /\ \A r \in inflight' \ inflight :
             /\ r.doc.id = nextId
             /\ nextId' = nextId + 1
             /\ db' = db
             /\ resp' = NoResp]_vars

\* C13 witness: a QR request succeeded while a barcode record is stored.
C13_Witness ==
    /\ resp.op = "generate"
    /\ resp.kind = "qrcode"
    /\ resp.status = 200
    /\ db.barcodes # <<>>
    /\ Len(db.qrcodes) = 1

\* How often a document occurs in a list.
Count(list, d) == Cardinality({i \in DOMAIN list : list[i] = d})

\* The record was generated as this kind and not deleted since.
GeneratedAs(kind, d) == \E g \in returned : g.kind = kind /\ g.doc = d

\* C14: a listing returns every record stored for its type exactly once,
\* however many there are, and only records generated as that type; a
\* retrieval by id returns only a record generated as its type.
C14_ListComplete ==
    /\ (resp.op = "list" /\ resp.status = 200)
          => /\ Len(resp.body) = Len(db[Coll(resp.kind)])
             /\ \A i \in DOMAIN db[Coll(resp.kind)] :
                   Count(resp.body, db[Coll(resp.kind)][i]) = 1
             /\ \A i \in DOMAIN resp.body : GeneratedAs(resp.kind, resp.body[i])
    /\ (resp.op = "get" /\ resp.status = 200)
          => GeneratedAs(resp.kind, resp.body[1])

\* C14 witness: a non-empty listing of one type while a record of the other
\* type is stored.
C14_Witness ==
    /\ resp.op = "list"
    /\ resp.status = 200
    /\ resp.body # <<>>
    /\ \E c \in Collections \ {Coll(resp.kind)} : db[c] # <<>>

\* C15 (under SpecDelete, delete requests in flight together, each delete_one
\* atomic): of the delete requests for one id at most one is answered 200,
\* and it removes one record; a delete of a stored id whose delete_one answers
\* is answered 200; a delete of an id already deleted is never answered 200
\* (404 whenever its delete_one answers) and removes nothing.
C15_OneDeleteSucceeds ==
    [][(Completes /\ resp'.op = "delete")
          => /\ resp'.status = 200
                   => /\ <<resp'.kind, resp'.id>> \notin deleted
                      /\ Stored(resp'.kind, resp'.id)
                      /\ Len(db'[Coll(resp'.kind)]) = Len(db[Coll(resp'.kind)]) - 1
             /\ resp'.status # 200 => db' = db
             /\ (Stored(resp'.kind, resp'.id) /\ ~resp'.storeRaised) => resp'.status = 200
             /\ <<resp'.kind, resp'.id>> \in deleted
                   => /\ resp'.status # 200
                      /\ ~resp'.storeRaised => resp'.status = 404]_vars

\* C15 witness: a delete was answered 200 while another delete request for
\* the same id is in flight.
C15_Witness ==
    /\ resp.op = "delete"
    /\ resp.status = 200
    /\ BagIn(<<resp.kind, resp.id>>, deleting)

====
